---- MODULE Spec2Model ----
(***************************************************************************)
(* Depth-limited minimax with alpha-beta cutoffs and a trace of explored   *)
(* nodes (src/main.py).  The recursion of minimax is unfolded into an      *)
(* explicit call stack so that the board's move stack, the shared path     *)
(* list and the global trace can be observed between every call and        *)
(* return.  The rules engine (python-chess) is an external library: a      *)
(* position is identified by the moves pushed since the root, its piece    *)
(* placement is looked up in a table drawn at Init, and the game is over   *)
(* when the side to move is mated or after GameLen plies.                  *)
(***************************************************************************)
EXTENDS Integers, Sequences, FiniteSets, TLC

\* ------------------------------------------------------------------ bounds
Branch == 2         \* legal moves offered in every non-terminal position
GameLen == 3        \* plies after which the rules engine reports game over
MaxDepth == 4       \* largest search depth handed to minimax_root
NLeaf == 3          \* size of the table of placements drawn at Init
MaxCalls == 2       \* invocations of minimax_root in one process

\* ------------------------------------------------------- program constants
BOARD_SIZE == 8
Sentinel == 9999

VARIABLES
    board,      \* board.move_stack: the moves pushed since the root position
    turn0,      \* board.turn of the root position (TRUE = White)
    leaf,       \* the piece placement of every position (index into Placements)
    explored,   \* the global trace list
    stack,      \* the active minimax calls, outermost first
    path,       \* the path list shared by reference along one root move
    ret,        \* <<v>> while a returned value awaits its caller, else <<>>
    rpc,        \* position of minimax_root: idle, loop, call, done
    rdepth,     \* minimax_root's depth argument
    rmoves,     \* minimax_root's legal_moves
    ri,         \* index of minimax_root's loop in rmoves
    reval,      \* minimax_root's max_eval / min_eval
    best_move,  \* minimax_root's best_move
    ncalls,     \* number of minimax_root invocations started
    base        \* length of explored when the current invocation started

vars == <<board, turn0, leaf, explored, stack, path, ret, rpc, rdepth,
          rmoves, ri, reval, best_move, ncalls, base>>

\* ------------------------------------------------------------ rules engine
KINDS == <<"P", "N", "B", "R", "Q">>

Man(k, w, s) == [kind |-> k, white |-> w, sq |-> s]

\* Three placements: equal material with a White pawn on e4, a knight
\* against a pawn with the knight on c3, and a Black queen on h4 attacking
\* the White king on e1, which is mate when White is to move.
Placements ==
    << [men |-> {Man("K", TRUE, 4), Man("k", FALSE, 60),
                 Man("P", TRUE, 28), Man("P", FALSE, 48)},
        checked |-> "none", mate |-> FALSE],
       [men |-> {Man("K", TRUE, 4), Man("k", FALSE, 60),
                 Man("N", TRUE, 18), Man("P", FALSE, 48)},
        checked |-> "none", mate |-> FALSE],
       [men |-> {Man("K", TRUE, 4), Man("k", FALSE, 60),
                 Man("P", TRUE, 8), Man("Q", FALSE, 31)},
        checked |-> "white", mate |-> TRUE] >>

None == [from_square |-> -1, to_square |-> -1]

square_file(sq) == sq % BOARD_SIZE
square_rank(sq) == sq \div BOARD_SIZE

\* square_to_xy, in units of one half: (x + 0.5, y + 0.5) is <<2x+1, 2y+1>>
square_to_xy(sq) == <<2 * square_file(sq) + 1, 2 * square_rank(sq) + 1>>

PathStep(m) == <<square_to_xy(m.from_square), square_to_xy(m.to_square)>>

\* move.uci(): file letter (as its index in "abcdefgh") and rank digit of
\* the two squares
uci(m) == <<square_file(m.from_square), square_rank(m.from_square) + 1,
            square_file(m.to_square), square_rank(m.to_square) + 1>>

Ord(m) == m.from_square % Branch

RECURSIVE PathCode(_)
PathCode(b) ==
    IF b = <<>> THEN 1 ELSE PathCode(SubSeq(b, 1, Len(b) - 1)) * Branch + Ord(b[Len(b)])

\* The table is indexed so that the positions two plies below a common
\* ancestor draw their placements independently (for NLeaf >= Branch^2) and
\* neighbouring subtrees see the table rotated.
Position(b) ==
    Placements[leaf[(PathCode(b) + PathCode(b) \div (Branch * Branch)) % NLeaf]]

turn(b) == IF Len(b) % 2 = 0 THEN turn0 ELSE ~turn0

\* board.is_check(): the side to move is attacked
is_check(b) ==
    \/ turn(b) /\ Position(b).checked = "white"
    \/ ~turn(b) /\ Position(b).checked = "black"

\* board.is_game_over(): the side to move is mated, or the game has run out
is_game_over(b) == Len(b) >= GameLen \/ (is_check(b) /\ Position(b).mate)

legal_moves(b) ==
    IF is_game_over(b) THEN <<>>
    ELSE [i \in 1..Branch |->
            [from_square |-> 8 + Len(b) * Branch + (i - 1),
             to_square   |-> 16 + Len(b) * Branch + (i - 1)]]

pieces(b, p, color) == {x \in Position(b).men : x.kind = p /\ x.white = color}

\* --------------------------------------------------------------- evaluator
\* a knight valued like a rook
PieceValueSwapped(p) ==
    CASE p = "P" -> 1 [] p = "N" -> 5 [] p = "B" -> 3 [] p = "R" -> 5 [] p = "Q" -> 9

PieceValue(p) ==
    CASE p = "P" -> 1 [] p = "N" -> 3 [] p = "B" -> 3 [] p = "R" -> 5 [] p = "Q" -> 9

RECURSIVE SumKinds(_, _)
SumKinds(b, n) ==
    IF n = 0 THEN 0
    ELSE SumKinds(b, n - 1)
         + Cardinality(pieces(b, KINDS[n], TRUE)) * PieceValue(KINDS[n])
         - Cardinality(pieces(b, KINDS[n], FALSE)) * PieceValue(KINDS[n])

evaluate(b) == SumKinds(b, Len(KINDS))

\* ------------------------------------------------------------------ search
Max(a, b) == IF a >= b THEN a ELSE b
Min(a, b) == IF a <= b THEN a ELSE b

IsLeaf(depth, b) == depth = 0 \/ is_game_over(b)

\* the recursion forgets to decrement the depth
ChildDepthSame(depth) == depth

ChildDepth(depth) == depth - 1

\* the cutoff test written with a strict comparison
CutoffStrict(alpha, beta) == beta < alpha

Cutoff(alpha, beta) == beta <= alpha

TraceNode(p, v, m, d) == [path |-> p, value |-> v, move |-> m, depth |-> d]

\* the node is inserted at the head of the trace
RecordFirst(trace, node) == <<node>> \o trace

\* explored.append(node)
Record(trace, node) == Append(trace, node)

\* max_eval = max(max_eval, current) / min_eval = min(min_eval, current)
NewBest(maximizing, best, current) ==
    IF maximizing THEN Max(best, current) ELSE Min(best, current)

\* alpha is raised in the minimizing branch too
NewAlphaBoth(maximizing, alpha, best) == Max(alpha, best)

\* alpha = max(alpha, max_eval), in the maximizing branch only
NewAlpha(maximizing, alpha, best) == IF maximizing THEN Max(alpha, best) ELSE alpha

\* beta = min(beta, min_eval), in the minimizing branch only
NewBeta(maximizing, beta, best) == IF maximizing THEN beta ELSE Min(beta, best)

Frame(depth, alpha, beta, maximizing, b, p) ==
    [depth |-> depth, alpha |-> alpha, beta |-> beta, maximizing |-> maximizing,
     pc |-> "enter", moves |-> <<>>, i |-> 1, best |-> 0,
     board0 |-> b, path0 |-> p, mark |-> 0]

Top == stack[Len(stack)]
Front(s) == SubSeq(s, 1, Len(s) - 1)
SetTop(f) == [stack EXCEPT ![Len(stack)] = f]

Init ==
    /\ board = <<>>
    /\ turn0 \in BOOLEAN
    /\ leaf \in [0..(NLeaf - 1) -> 1..Len(Placements)]
    /\ explored = <<>>
    /\ stack = <<>>
    /\ path = <<>>
    /\ ret = <<>>
    /\ rpc = "idle"
    /\ rdepth = 0
    /\ rmoves = <<>>
    /\ ri = 1
    /\ reval = 0
    /\ best_move = None
    /\ ncalls = 0
    /\ base = 0

\* minimax_root is called: lines 85-90 / 99
Start ==
    /\ rpc = "idle"
    /\ \E d \in 0..MaxDepth : rdepth' = d
    /\ rmoves' = legal_moves(board)
    /\ best_move' = None
    /\ reval' = IF turn(board) THEN -Sentinel ELSE Sentinel
    /\ ri' = 1
    /\ rpc' = "loop"
    /\ ncalls' = ncalls + 1
    /\ base' = Len(explored)
    /\ UNCHANGED <<board, turn0, leaf, explored, stack, path, ret>>

\* lines 92-93 / 101-102: push the root move and call minimax
RootCall ==
    /\ rpc = "loop"
    /\ ri <= Len(rmoves)
    /\ LET move == rmoves[ri]
           b == Append(board, move)
           p == <<PathStep(move)>>
       IN /\ board' = b
          /\ path' = p
          /\ stack' = <<Frame(ChildDepth(rdepth), -Sentinel, Sentinel, ~turn(board), b, p)>>
    /\ rpc' = "call"
    /\ ret' = <<>>
    /\ UNCHANGED <<turn0, leaf, explored, rdepth, rmoves, ri, reval, best_move, ncalls, base>>

\* the running best is replaced on an equal score too
RootBetterOrEqual(val, best, white) == IF white THEN val >= best ELSE val =< best

RootBetter(val, best, white) == IF white THEN val > best ELSE val < best

\* lines 94-97 / 103-106: pop the root move and keep the better score
RootResume ==
    /\ rpc = "call"
    /\ stack = <<>>
    /\ ret # <<>>
    /\ board' = Front(board)
    /\ LET val == ret[1]
       IN IF RootBetter(val, reval, turn(Front(board)))
          THEN reval' = val /\ best_move' = rmoves[ri]
          ELSE UNCHANGED <<reval, best_move>>
    /\ ri' = ri + 1
    /\ rpc' = "loop"
    /\ ret' = <<>>
    /\ UNCHANGED <<turn0, leaf, explored, stack, path, rdepth, rmoves, ncalls, base>>

\* lines 107-109: the loop is exhausted
RootReturn ==
    /\ rpc = "loop"
    /\ ri > Len(rmoves)
    /\ rpc' = "done"
    /\ UNCHANGED <<board, turn0, leaf, explored, stack, path, ret, rdepth, rmoves,
                   ri, reval, best_move, ncalls, base>>

\* lines 17-20: leaf or terminal position
Leaf ==
    /\ stack # <<>>
    /\ Top.pc = "enter"
    /\ IsLeaf(Top.depth, board)
    /\ LET val == evaluate(board)
       IN /\ explored' = Record(explored, TraceNode(path, val, <<>>, Top.depth))
          /\ ret' = <<val>>
    /\ stack' = Front(stack)
    /\ UNCHANGED <<board, turn0, leaf, path, rpc, rdepth, rmoves, ri, reval,
                   best_move, ncalls, base>>

\* lines 22-25 / 39: expansion starts
Expand ==
    /\ stack # <<>>
    /\ Top.pc = "enter"
    /\ ~IsLeaf(Top.depth, board)
    /\ stack' = SetTop([Top EXCEPT !.pc = "loop",
                                   !.moves = legal_moves(board),
                                   !.i = 1,
                                   !.best = IF Top.maximizing THEN -Sentinel ELSE Sentinel])
    /\ UNCHANGED <<board, turn0, leaf, explored, path, ret, rpc, rdepth, rmoves, ri,
                   reval, best_move, ncalls, base>>

\* lines 27-29 / 41-43: push the move, extend the path, recurse
Descend ==
    /\ stack # <<>>
    /\ Top.pc = "loop"
    /\ Top.i <= Len(Top.moves)
    /\ LET move == Top.moves[Top.i]
           b == Append(board, move)
           p == Append(path, PathStep(move))
       IN /\ board' = b
          /\ path' = p
          /\ stack' = Append(SetTop([Top EXCEPT !.pc = "call", !.mark = Len(explored)]),
                             Frame(ChildDepth(Top.depth), Top.alpha, Top.beta,
                                   ~Top.maximizing, b, p))
    /\ ret' = <<>>
    /\ UNCHANGED <<turn0, leaf, explored, rpc, rdepth, rmoves, ri, reval, best_move,
                   ncalls, base>>

\* board.pop() is missing
UndoBoardMissing(b) == b

\* path.pop() is missing
UndoPathMissing(p) == p

UndoBoard(b) == Front(b)
UndoPath(p) == Front(p)

\* lines 30-36 / 44-50: undo, record the child, fold its value, test the cutoff
Resume ==
    /\ stack # <<>>
    /\ Top.pc = "call"
    /\ ret # <<>>
    /\ LET current == ret[1]
           move == Top.moves[Top.i]
           p == UndoPath(path)
           best == NewBest(Top.maximizing, Top.best, current)
           alpha == NewAlpha(Top.maximizing, Top.alpha, best)
           beta == NewBeta(Top.maximizing, Top.beta, best)
       IN /\ board' = UndoBoard(board)
          /\ path' = p
          /\ explored' = Record(explored, TraceNode(p, current, uci(move), Top.depth))
          /\ stack' = SetTop([Top EXCEPT !.best = best, !.alpha = alpha, !.beta = beta,
                                         !.pc = IF Cutoff(alpha, beta) THEN "exit" ELSE "loop",
                                         !.i = IF Cutoff(alpha, beta) THEN Top.i ELSE Top.i + 1])
    /\ ret' = <<>>
    /\ UNCHANGED <<turn0, leaf, rpc, rdepth, rmoves, ri, reval, best_move, ncalls, base>>

\* lines 37 / 51: return max_eval / min_eval after the break or the last move
Return ==
    /\ stack # <<>>
    /\ \/ Top.pc = "exit"
       \/ Top.pc = "loop" /\ Top.i > Len(Top.moves)
    /\ ret' = <<Top.best>>
    /\ stack' = Front(stack)
    /\ UNCHANGED <<board, turn0, leaf, explored, path, rpc, rdepth, rmoves, ri, reval,
                   best_move, ncalls, base>>

\* the process calls minimax_root once more on the same board
Again ==
    /\ rpc = "done"
    /\ ncalls < MaxCalls
    /\ rpc' = "idle"
    /\ UNCHANGED <<board, turn0, leaf, explored, stack, path, ret, rdepth, rmoves, ri,
                   reval, best_move, ncalls, base>>

Next ==
    \/ Start
    \/ RootCall
    \/ RootResume
    \/ RootReturn
    \/ Leaf
    \/ Expand
    \/ Descend
    \/ Resume
    \/ Return

Spec == Init /\ [][Next]_vars

\* the recursion is synchronous: a step that can be taken is taken
FairSpec == Spec /\ WF_vars(Next)

NextRe == Next \/ Again

SpecRe == Init /\ [][NextRe]_vars

\* ================================================================== claims
SetMax(S) == CHOOSE x \in S : \A y \in S : y <= x
SetMin(S) == CHOOSE x \in S : \A y \in S : x <= y

\* the recursion of minimax with the test "if beta <= alpha: break" removed
RECURSIVE Plain(_, _, _)
Plain(b, depth, maximizing) ==
    IF depth = 0 \/ is_game_over(b) THEN evaluate(b)
    ELSE LET vals == {Plain(Append(b, legal_moves(b)[i]), depth - 1, ~maximizing) :
                        i \in 1..Len(legal_moves(b))}
         IN IF maximizing THEN SetMax(vals) ELSE SetMin(vals)

\* number of TraceNodes the recursion without cutoffs records
RECURSIVE PlainCount(_, _)
RECURSIVE PlainCountFrom(_, _, _)
PlainCount(b, depth) ==
    IF depth = 0 \/ is_game_over(b) THEN 1
    ELSE PlainCountFrom(b, depth, Len(legal_moves(b)))
PlainCountFrom(b, depth, n) ==
    IF n = 0 THEN 0
    ELSE PlainCountFrom(b, depth, n - 1)
         + PlainCount(Append(b, legal_moves(b)[n]), depth - 1) + 1

Last(s) == s[Len(s)]
IsPrefix(p, q) == Len(p) <= Len(q) /\ SubSeq(q, 1, Len(p)) = p
PathOf(b) == [k \in 1..Len(b) |-> PathStep(b[k])]

\* a top-level minimax call has returned to minimax_root
RootGotValue == rpc = "call" /\ stack = <<>> /\ ret # <<>>

\* a minimax call has returned to the minimax call that made it
ChildReturned == stack # <<>> /\ Top.pc = "call" /\ ret # <<>>

\* the call that has just returned was a leaf evaluation
LeafReturned == ret # <<>> /\ explored # <<>> /\ Last(explored).move = <<>>

\* a cutoff has left the loop with sibling moves still unvisited
CutoffTaken == stack # <<>> /\ Top.pc = "exit" /\ Top.i < Len(Top.moves)

\* C1: a minimax call made with the full window (-9999, 9999) and depth >= 0
\* returns the value of the same recursion without the cutoff test.
C1_PruningPreservesValue ==
    (RootGotValue /\ rdepth >= 1)
        => ret[1] = Plain(board, rdepth - 1, ~turn(Front(board)))

\* a full-window call has returned after visiting fewer nodes than plain minimax
C1_Witness ==
    /\ RootGotValue
    /\ rdepth >= 3
    /\ ri = 1
    /\ Len(explored) - base < PlainCount(board, rdepth - 1)

\* C2: the board's move stack is what it was when the call started, at every
\* return of minimax (also through the break) and when minimax_root returns.
C2_BoardRestored ==
    /\ rpc = "done" => board = <<>>
    /\ RootGotValue => board = <<rmoves[ri]>>
    /\ ChildReturned => board = Append(Top.board0, Top.moves[Top.i])
    /\ (stack # <<>> /\ Top.pc \in {"loop", "exit"}) => board = Top.board0

\* a call is about to return through the break with its board restored
C2_Witness == CutoffTaken /\ board = Top.board0 /\ Len(board) >= 2

\* score of the i-th root move
RootScore(i) == Plain(<<rmoves[i]>>, rdepth - 1, ~turn0)

RootBestScore ==
    LET scores == {RootScore(i) : i \in 1..Len(rmoves)}
    IN IF turn0 THEN SetMax(scores) ELSE SetMin(scores)

\* C3: minimax_root returns the earliest root move, in generation order,
\* among those with the best score.
C3_RootTieBreak ==
    (rpc = "done" /\ rmoves # <<>>)
        => \E i \in 1..Len(rmoves) :
              /\ best_move = rmoves[i]
              /\ RootScore(i) = RootBestScore
              /\ \A j \in 1..(i - 1) : RootScore(j) # RootBestScore

\* minimax_root has returned from a position where two root moves tie for best
C3_Witness ==
    /\ rpc = "done"
    /\ rdepth >= 2
    /\ \E i, j \in 1..Len(rmoves) :
          i < j /\ RootScore(i) = RootBestScore /\ RootScore(j) = RootBestScore

\* C4: when minimax_root returns, the trace holds only the nodes recorded by
\* that invocation: none was in it when the invocation started.
C4_TraceFresh == rpc = "done" => base = 0

\* C5: a call with depth <= 0 is an immediate leaf: it never expands.
C5_NonPositiveDepthIsLeaf ==
    \A k \in 1..Len(stack) : stack[k].depth <= 0 => stack[k].pc = "enter"

Central(sq) == square_file(sq) \in 2..5 /\ square_rank(sq) \in 2..5

RECURSIVE SumMen(_)
SumMen(S) ==
    IF S = {} THEN 0
    ELSE LET x == CHOOSE y \in S : TRUE
             v == CASE x.kind = "P" -> 1 [] x.kind = "N" -> 3 [] x.kind = "B" -> 3
                    [] x.kind = "R" -> 5 [] x.kind = "Q" -> 9 [] OTHER -> 0
         IN (IF x.white THEN v ELSE -v) + SumMen(S \ {x})

\* material balance, counted man by man
Material(b) == SumMen(Position(b).men)

\* twice the score the claim describes: material, +-0.5 per man on a central
\* square, -+0.5 when the side to move is in check
ClaimedEval2(b) ==
    2 * Material(b)
    + Cardinality({x \in Position(b).men : x.white /\ Central(x.sq)})
    - Cardinality({x \in Position(b).men : ~x.white /\ Central(x.sq)})
    + (IF is_check(b) THEN (IF turn(b) THEN -1 ELSE 1) ELSE 0)

C7_Total ==
    /\ [](rdepth >= 1 => Len(stack) <= rdepth)
    /\ ((rpc = "loop" /\ rdepth >= 1) ~> (rpc = "done"))

\* d minimax calls are nested
C7_Witness == rdepth >= 2 /\ Len(stack) = rdepth

\* C8: every call that has not yet left its loop has alpha < beta, and once
\* beta <= alpha the call returns at once: no move is applied, no node recorded.
C8_FailHard ==
    /\ [](\A k \in 1..Len(stack) : stack[k].pc # "exit" => stack[k].alpha < stack[k].beta)
    /\ [][(stack # <<>> /\ Top.beta <= Top.alpha)
            => (stack' = Front(stack) /\ board' = board /\ explored' = explored
                /\ ret' = <<Top.best>>)]_vars

\* a call is about to return through the break, its later moves unvisited
C8_Witness == CutoffTaken /\ Top.beta <= Top.alpha /\ Top.depth >= 2

\* C9: the trace grows by appending only; the entry of a child move comes
\* right after the entries recorded inside the child's call, as soon as it returns.
C9_CompletionOrder ==
    /\ [][IsPrefix(explored, explored') /\ Len(explored') <= Len(explored) + 1]_vars
    /\ [][ChildReturned =>
            /\ Len(explored) > Top.mark
            /\ \A k \in (Top.mark + 1)..Len(explored) :
                  IsPrefix(Append(Top.path0, PathStep(Top.moves[Top.i])), explored[k].path)
            /\ explored' = Append(explored,
                  TraceNode(Top.path0, ret[1], uci(Top.moves[Top.i]), Top.depth))
            /\ board' = Top.board0]_vars

\* a child's entry was recorded after at least three entries of its own call
C9_Witness ==
    /\ explored # <<>>
    /\ Last(explored).move # <<>>
    /\ stack # <<>>
    /\ Len(explored) - Top.mark >= 4

\* C10: a recorded path is the line of moves on the board at that moment, so
\* len(path) + depth = D; and a call leaves the path list as it received it.
C10_PathDiscipline ==
    /\ [](stack # <<>> => path = PathOf(board))
    /\ []((stack # <<>> /\ Top.pc \in {"loop", "exit"}) => path = Top.path0)
    /\ [](rdepth >= 1 =>
            \A k \in (base + 1)..Len(explored) :
                Len(explored[k].path) + explored[k].depth = rdepth)
    /\ [][Len(explored') > Len(explored) => Last(explored').path = PathOf(board')]_vars

\* an expansion entry was recorded two plies below the search root
C10_Witness ==
    /\ rdepth >= 1
    /\ explored # <<>>
    /\ Last(explored).move # <<>>
    /\ Len(Last(explored).path) >= 2
    /\ path = Last(explored).path

====
